---- MODULE Spec2Model ----
(***************************************************************************)
(* SymExecWrapper.__init__ (mythril/analysis/symbolic.py): the wrapper     *)
(* that assembles a LASER session, runs it once and, when the statespace   *)
(* is retained, parses the call instructions of the statespace into        *)
(* self.calls.                                                             *)
(***************************************************************************)
EXTENDS Integers, Sequences, FiniteSets, TLC

\* Total number of states in a statespace the engine hands back.
MaxStates == 2

\* mythril.laser.ethereum.natives.PRECOMPILE_COUNT (imported at line 22).
PRECOMPILE_COUNT == 9

\* mythril.laser.ethereum.transaction.symbolic.ACTORS (imported at line 23);
\* the 160-bit addresses 0xAFFE... and 0xDEAD... are kept by their top byte.
ACTORS == [creator |-> 175, attacker |-> 222]

VARIABLES
    pc,                   \* position in __init__
    inp,                  \* the arguments of __init__ and the modules installed
    address,              \* local `address` after lines 82-85
    s_strategy,           \* local `s_strategy`
    requires_statespace,  \* local `requires_statespace`
    attrs,                \* names of the attributes set on self
    accounts,             \* self.accounts, in insertion order
    laser,                \* self.laser, the LaserEVM session
    world_state,          \* local `world_state`
    trace,                \* calls made on the engine and the plugin loader
    error,                \* exception raised out of __init__
    nodes,                \* self.nodes
    edges,                \* self.edges
    calls,                \* self.calls
    key,                  \* position of `key` in the iteration of self.nodes
    pos,                  \* position of `state` in the iteration of the node's states
    state_index           \* local `state_index`

vars == <<pc, inp, address, s_strategy, requires_statespace, attrs, accounts,
          laser, world_state, trace, error, nodes, edges, calls, key, pos,
          state_index>>

-----------------------------------------------------------------------------
(* Values *)

\* hex(n) without its "0x" prefix: the digits of n, most significant first.
RECURSIVE hex(_)
hex(n) == IF n < 16 THEN <<n>> ELSE Append(hex(n \div 16), n % 16)

\* int(s, 16) on the digits of s.
RECURSIVE int16(_)
int16(s) ==
    IF Len(s) = 0 THEN 0
    ELSE 16 * int16(SubSeq(s, 1, Len(s) - 1)) + s[Len(s)]

\* symbol_factory.BitVecVal(v, 256): a concrete bit-vector.
BitVecVal(v) == [symbolic |-> FALSE, value |-> v]

\* An unresolved bit-vector expression.
BitVecSym(name) == [symbolic |-> TRUE, expr |-> name]

\* Lines 82-85: a str address is parsed as hex, an int address is wrapped.
NormalizeAddress(a) ==
    IF a.type = "str" THEN BitVecVal(int16(a.digits))
    ELSE IF a.type = "int" THEN BitVecVal(a.n)
    ELSE a.bv

\* SelectStrategy with the bfs branch a copy of the dfs branch.
SelectStrategyBfsAsDfs(strategy) ==
    IF strategy \in {"dfs", "bfs"} THEN "DepthFirstSearchStrategy"
    ELSE IF strategy = "naive-random" THEN "ReturnRandomNaivelyStrategy"
    ELSE IF strategy = "weighted-random" THEN "ReturnWeightedRandomStrategy"
    ELSE "ValueError"

\* Lines 87-96.
SelectStrategy(strategy) ==
    IF strategy = "dfs" THEN "DepthFirstSearchStrategy"
    ELSE IF strategy = "bfs" THEN "BreadthFirstSearchStrategy"
    ELSE IF strategy = "naive-random" THEN "ReturnRandomNaivelyStrategy"
    ELSE IF strategy = "weighted-random" THEN "ReturnWeightedRandomStrategy"
    ELSE "ValueError"

\* Account(address, code, ...): a str address is parsed as hex.
Account(addr, code, dynamic_loader, contract_name, concrete_storage) ==
    [address |-> addr, code |-> code, dynamic_loader |-> dynamic_loader,
     contract_name |-> contract_name, concrete_storage |-> concrete_storage]

\* Lines 98-100.
creator_account == Account(int16(hex(ACTORS.creator)), "", "None", "None", FALSE)

\* Lines 101-103.
attacker_account == Account(int16(hex(ACTORS.attacker)), "", "None", "None", FALSE)

\* RequiresStatespace without the POST modules.
RequiresStatespaceForcedOnly(compulsory_statespace, post_modules) ==
    compulsory_statespace

\* Lines 105-108.
RequiresStatespace(compulsory_statespace, post_modules) ==
    compulsory_statespace \/ post_modules > 0

\* BootstrapAccounts with both actors whatever the creation code.
BootstrapBothActors(creation_code) ==
    <<[k |-> hex(ACTORS.creator), account |-> creator_account],
      [k |-> hex(ACTORS.attacker), account |-> attacker_account]>>

\* Lines 109-115: self.accounts as the sequence of its (key, account) items.
BootstrapAccounts(creation_code) ==
    IF creation_code = ""
    THEN <<[k |-> hex(ACTORS.attacker), account |-> attacker_account]>>
    ELSE <<[k |-> hex(ACTORS.creator), account |-> creator_account],
           [k |-> hex(ACTORS.attacker), account |-> attacker_account]>>

\* WorldState.put_account: the world state maps an address to one account.
put_account(ws, account) ==
    [a \in (DOMAIN ws) \cup {account.address} |->
        IF a = account.address THEN account ELSE ws[a]]

\* WorldState(): no accounts.
EmptyWorldState == [a \in {} |-> attacker_account]

\* Lines 142-144.
RECURSIVE PutAccounts(_, _)
PutAccounts(ws, items) ==
    IF Len(items) = 0 THEN ws
    ELSE PutAccounts(put_account(ws, Head(items).account), Tail(items))

-----------------------------------------------------------------------------
(* The statespace: nodes of states *)

\* stack[-k]: the k-th entry from the top; the top is the last element.
Peek(stack, k) == stack[Len(stack) - k + 1]

\* ops.get_variable: a stack entry classified as concrete or symbolic.
get_variable(i) ==
    IF i.symbolic THEN [type |-> "SYMBOLIC", sym |-> i.expr]
    ELSE [type |-> "CONCRETE", val |-> i.value]

\* IsCallFamily without STATICCALL.
IsCallFamilyWithoutStatic(op) == op \in {"CALL", "CALLCODE", "DELEGATECALL"}

\* Line 206.
IsCallFamily(op) == op \in {"CALL", "CALLCODE", "DELEGATECALL", "STATICCALL"}

\* IsValueCall with STATICCALL taken for a value call.
IsValueCallOrStatic(op) == op \in {"CALL", "CALLCODE", "STATICCALL"}

\* Line 210.
IsValueCall(op) == op \in {"CALL", "CALLCODE"}

\* IsPrebuilt with the upper bound excluded.
IsPrebuiltBelowCount(to) ==
    to.type = "CONCRETE" /\ 0 < to.val /\ to.val < PRECOMPILE_COUNT

\* Lines 221-224.
IsPrebuilt(to) ==
    to.type = "CONCRETE" /\ 0 < to.val /\ to.val <= PRECOMPILE_COUNT

\* Lines 228-231.
HasConcreteInput(meminstart, meminsz) ==
    meminstart.type = "CONCRETE" /\ meminsz.type = "CONCRETE"

\* memory[i]: the byte at offset i, 0 where nothing was written.
MemoryAt(memory, i) == IF i + 1 \in DOMAIN memory THEN memory[i + 1] ELSE 0

\* memory[start : stop].
MemorySlice(memory, start, stop) ==
    [j \in 1..(stop - start) |-> MemoryAt(memory, start + j - 1)]

\* InputData with the size taken for the end of the slice.
InputDataSizeAsStop(memory, meminstart, meminsz) ==
    MemorySlice(memory, meminstart.val, meminsz.val)

\* Lines 241-243.
InputData(memory, meminstart, meminsz) ==
    MemorySlice(memory, meminstart.val, meminsz.val + meminstart.val)

\* Lines 232-245: Call(node, state, state_index, op, to, gas, value, data).
\* node and state are references: the node's key and the state's place.
CallWithData(node, state, index, op, stack, memory) ==
    [node |-> node, state |-> state, state_index |-> index, type |-> op,
     to |-> get_variable(Peek(stack, 2)), gas |-> get_variable(Peek(stack, 1)),
     value |-> get_variable(Peek(stack, 3)),
     data |-> InputData(memory, get_variable(Peek(stack, 4)),
                        get_variable(Peek(stack, 5)))]

\* Lines 247-257: Call(node, state, state_index, op, to, gas, value).
CallWithoutData(node, state, index, op, stack) ==
    [node |-> node, state |-> state, state_index |-> index, type |-> op,
     to |-> get_variable(Peek(stack, 2)), gas |-> get_variable(Peek(stack, 1)),
     value |-> get_variable(Peek(stack, 3))]

\* Lines 268-270: Call(node, state, state_index, op, to, gas).
CallToGas(node, state, index, op, stack) ==
    [node |-> node, state |-> state, state_index |-> index, type |-> op,
     to |-> get_variable(Peek(stack, 2)), gas |-> get_variable(Peek(stack, 1))]

\* AppendCall putting the record first.
PrependCall(cs, call) == <<call>> \o cs

\* self.calls.append(call).
AppendCall(cs, call) == Append(cs, call)

-----------------------------------------------------------------------------
(* Statespaces the engine can hand back *)

Targets == {BitVecVal(0), BitVecVal(PRECOMPILE_COUNT),
            BitVecVal(PRECOMPILE_COUNT + 1), BitVecSym("to")}
\* Targets of the DELEGATECALL and STATICCALL states.
PlainTargets == {BitVecVal(PRECOMPILE_COUNT), BitVecSym("to")}

\* Input offset and size: both concrete, or one of them symbolic.
InputRanges == {<<BitVecVal(1), BitVecVal(2)>>,
                <<BitVecVal(1), BitVecSym("meminsz")>>,
                <<BitVecSym("meminstart"), BitVecVal(2)>>}

\* Memory contents of a state, from offset 0.
Memories == {<<170, 187, 204, 221>>}

\* The stack at a CALL or CALLCODE, bottom first: the top is gas.
ValueCallStack(to, meminstart, meminsz) ==
    <<BitVecSym("memoutsz"), BitVecVal(0), meminsz, meminstart,
      BitVecSym("callvalue"), to, BitVecVal(2300)>>

\* The stack at a DELEGATECALL or STATICCALL, bottom first: the top is gas.
PlainCallStack(to, meminstart, meminsz) ==
    <<BitVecSym("memoutsz"), BitVecVal(0), meminsz, meminstart, to,
      BitVecSym("gas")>>

GlobalState(op, stack, memory) ==
    [opcode |-> op, stack |-> stack, memory |-> memory]

States ==
    {GlobalState(op, ValueCallStack(t, r[1], r[2]), m) :
        op \in {"CALL", "CALLCODE"}, t \in Targets, r \in InputRanges,
        m \in Memories}
    \cup
    {GlobalState(op, PlainCallStack(t, BitVecVal(1), BitVecVal(2)), m) :
        op \in {"DELEGATECALL", "STATICCALL"}, t \in PlainTargets, m \in Memories}
    \cup
    {GlobalState("SSTORE", <<BitVecSym("v"), BitVecVal(0)>>, m) : m \in Memories}

RECURSIVE Sum(_)
Sum(shape) == IF Len(shape) = 0 THEN 0 ELSE Head(shape) + Sum(Tail(shape))

\* The sizes of the nodes of a statespace: every node holds a state.
Shapes ==
    UNION {{sh \in [1..n -> 1..MaxStates] : Sum(sh) <= MaxStates} : n \in 0..MaxStates}

\* The nodes of sizes `shape` holding the states `flat` in order; a node's
\* key is its uid, handed out in order of creation.
Statespace(shape, flat) ==
    [n \in 1..Len(shape) |->
        [uid |-> n,
         states |-> [j \in 1..shape[n] |->
                        flat[Sum(SubSeq(shape, 1, n - 1)) + j]]]]

\* The statespaces of sizes `shape`.
Statespaces(shape) ==
    {Statespace(shape, flat) : flat \in [1..Sum(shape) -> States]}

\* One statespace that holds every kind of state.
SampleStatespace ==
    <<[uid |-> 1, states |-> <<
        GlobalState("SSTORE", <<BitVecSym("v"), BitVecVal(0)>>, <<170, 187>>),
        GlobalState("CALL", ValueCallStack(BitVecVal(4), BitVecVal(0), BitVecVal(4)),
                    <<170, 187, 204, 221>>),
        GlobalState("CALL", ValueCallStack(BitVecVal(57005), BitVecVal(0), BitVecVal(4)),
                    <<170, 187, 204, 221>>)>>],
      [uid |-> 2, states |-> <<
        GlobalState("CALLCODE", ValueCallStack(BitVecSym("to"), BitVecVal(0),
                    BitVecSym("meminsz")), <<170, 187, 204, 221>>),
        GlobalState("STATICCALL", PlainCallStack(BitVecVal(4), BitVecVal(0), BitVecVal(4)),
                    <<170, 187, 204, 221>>)>>]>>

\* The edges between consecutive nodes.
EdgesOf(g) == [n \in 1..(Len(g) - 1) |-> [node_from |-> g[n].uid, node_to |-> g[n + 1].uid]]

-----------------------------------------------------------------------------
(* Arguments of __init__ *)

Strategies == {"dfs", "bfs", "naive-random", "weighted-random", "random"}

Contracts ==
    [kind : {"SolidityContract", "EVMContract", "Other"},
     creation_code : {"", "6080"},
     name : {"MAIN"},
     disassembly : {"runtime"}]

\* address: a hex str, an int or a BitVec; two of them are the actors' addresses.
Addresses ==
    {[type |-> "str", digits |-> hex(ACTORS.attacker)],
     [type |-> "str", digits |-> <<1, 0>>],
     [type |-> "int", n |-> ACTORS.creator],
     [type |-> "bv", bv |-> BitVecVal(17)]}

DynLoaders == {"None", "storage_loading", "no_storage_loading"}

LoopBounds == {[none |-> TRUE], [none |-> FALSE, bound |-> 3]}

Inputs ==
    [contract : Contracts,
     address : Addresses,
     strategy : Strategies,
     dynloader : DynLoaders,
     loop_bound : LoopBounds,
     compulsory_statespace : BOOLEAN,
     disable_dependency_pruning : BOOLEAN,
     run_analysis_modules : BOOLEAN,
     post_modules : 0..1]

NoLaser ==
    [strategy |-> "", requires_statespace |-> FALSE, dynamic_loader |-> "",
     extensions |-> <<>>, plugins |-> <<>>, hooks |-> <<>>, runs |-> <<>>,
     nodes |-> <<>>, edges |-> <<>>]

InitWith(inputs) ==
    /\ inp \in inputs
    /\ pc = "normalize"
    /\ address = BitVecVal(0)
    /\ s_strategy = ""
    /\ requires_statespace = FALSE
    /\ attrs = {}
    /\ accounts = <<>>
    /\ laser = NoLaser
    /\ world_state = EmptyWorldState
    /\ trace = <<>>
    /\ error = ""
    /\ nodes = <<>>
    /\ edges = <<>>
    /\ calls = <<>>
    /\ key = 0
    /\ pos = 0
    /\ state_index = 0

Init == InitWith(Inputs)

-----------------------------------------------------------------------------
(* __init__, lines 82-194 *)

\* Lines 82-85.
Normalize ==
    /\ pc = "normalize"
    /\ address' = NormalizeAddress(inp.address)
    /\ pc' = "strategy"
    /\ UNCHANGED <<inp, s_strategy, requires_statespace, attrs, accounts, laser,
                   world_state, trace, error, nodes, edges, calls, key, pos,
                   state_index>>

\* Lines 87-94: the strategy is one of the four.
StrategySelected ==
    /\ pc = "strategy"
    /\ SelectStrategy(inp.strategy) # "ValueError"
    /\ s_strategy' = SelectStrategy(inp.strategy)
    /\ pc' = "bootstrap"
    /\ UNCHANGED <<inp, address, requires_statespace, attrs, accounts, laser,
                   world_state, trace, error, nodes, edges, calls, key, pos,
                   state_index>>

\* Lines 95-96: raise ValueError("Invalid strategy argument supplied").
StrategyRejected ==
    /\ pc = "strategy"
    /\ SelectStrategy(inp.strategy) = "ValueError"
    /\ error' = "ValueError"
    /\ pc' = "raised"
    /\ UNCHANGED <<inp, address, s_strategy, requires_statespace, attrs,
                   accounts, laser, world_state, trace, nodes, edges, calls,
                   key, pos, state_index>>

\* Lines 98-115.
Bootstrap ==
    /\ pc = "bootstrap"
    /\ requires_statespace' =
           RequiresStatespace(inp.compulsory_statespace, inp.post_modules)
    /\ accounts' = BootstrapAccounts(inp.contract.creation_code)
    /\ attrs' = attrs \cup {"accounts"}
    /\ pc' = "engine"
    /\ UNCHANGED <<inp, address, s_strategy, laser, world_state, trace, error,
                   nodes, edges, calls, key, pos, state_index>>

\* Lines 117-130: svm.LaserEVM(...).
BuildEngine ==
    /\ pc = "engine"
    /\ laser' = [NoLaser EXCEPT !.strategy = s_strategy,
                                !.requires_statespace = requires_statespace,
                                !.dynamic_loader = inp.dynloader]
    /\ attrs' = attrs \cup {"laser"}
    /\ trace' = Append(trace, "LaserEVM")
    /\ pc' = "extend"
    /\ UNCHANGED <<inp, address, s_strategy, requires_statespace, accounts,
                   world_state, error, nodes, edges, calls, key, pos,
                   state_index>>

\* Lines 132-133.
ExtendStrategy ==
    /\ pc = "extend"
    /\ IF inp.loop_bound.none
       THEN UNCHANGED <<laser, trace>>
       ELSE /\ laser' = [laser EXCEPT !.extensions =
                            Append(@, [strategy |-> "BoundedLoopsStrategy",
                                       bound |-> inp.loop_bound.bound])]
            /\ trace' = Append(trace, "extend_strategy")
    /\ pc' = "plugins"
    /\ UNCHANGED <<inp, address, s_strategy, requires_statespace, attrs,
                   accounts, world_state, error, nodes, edges, calls, key, pos,
                   state_index>>

\* Lines 135-140: the plugins loaded, in order.
PluginsToLoad(disable_dependency_pruning) ==
    <<"mutation_pruner", "instruction_coverage">>
    \o (IF disable_dependency_pruning THEN <<>> ELSE <<"dependency_pruner">>)

\* Lines 135-140.
LoadPlugins ==
    /\ pc = "plugins"
    /\ laser' = [laser EXCEPT !.plugins =
                    @ \o PluginsToLoad(inp.disable_dependency_pruning)]
    /\ trace' = trace \o [i \in 1..Len(PluginsToLoad(inp.disable_dependency_pruning))
                             |-> "load"]
    /\ pc' = "world"
    /\ UNCHANGED <<inp, address, s_strategy, requires_statespace, attrs,
                   accounts, world_state, error, nodes, edges, calls, key, pos,
                   state_index>>

\* Lines 142-144.
BuildWorldState ==
    /\ pc = "world"
    /\ world_state' = PutAccounts(EmptyWorldState, accounts)
    /\ pc' = "hooks"
    /\ UNCHANGED <<inp, address, s_strategy, requires_statespace, attrs,
                   accounts, laser, trace, error, nodes, edges, calls, key, pos,
                   state_index>>

\* Lines 146-159.
RegisterHooks ==
    /\ pc = "hooks"
    /\ IF inp.run_analysis_modules
       THEN /\ laser' = [laser EXCEPT !.hooks = @ \o <<"pre", "post">>]
            /\ trace' = trace \o <<"register_hooks", "register_hooks">>
       ELSE UNCHANGED <<laser, trace>>
    /\ pc' = "dispatch"
    /\ UNCHANGED <<inp, address, s_strategy, requires_statespace, attrs,
                   accounts, world_state, error, nodes, edges, calls, key, pos,
                   state_index>>

\* IsCreationRun without the test of the creation code.
IsCreationRunAnyEVM(contract) ==
    contract.kind \in {"SolidityContract", "EVMContract"}

\* Lines 161 and 167: SolidityContract is a subclass of EVMContract.
IsCreationRun(contract) ==
    \/ contract.kind = "SolidityContract"
    \/ (contract.kind = "EVMContract" /\ contract.creation_code # "")

\* Lines 174-182.
DeployedAccount(addr, contract, dynloader) ==
    Account(addr.value, contract.disassembly, dynloader, contract.name,
            dynloader = "storage_loading")

\* LaserEVM.sym_exec: one exploration run; the engine keeps the nodes and
\* edges it explored when it was built with requires_statespace.
SymExec(session, run, g) ==
    [session EXCEPT !.runs = Append(@, run),
                    !.nodes = IF session.requires_statespace THEN g ELSE <<>>,
                    !.edges = IF session.requires_statespace THEN EdgesOf(g) ELSE <<>>]

\* Lines 161-172: sym_exec(creation_code=..., contract_name=..., world_state=...).
DispatchCreation(G) ==
    /\ pc = "dispatch"
    /\ IsCreationRun(inp.contract)
    /\ \E g \in G :
          laser' = SymExec(laser,
                           [mode |-> "creation",
                            creation_code |-> inp.contract.creation_code,
                            contract_name |-> inp.contract.name,
                            world_state |-> world_state], g)
    /\ trace' = Append(trace, "sym_exec")
    /\ pc' = "return"
    /\ UNCHANGED <<inp, address, s_strategy, requires_statespace, attrs,
                   accounts, world_state, error, nodes, edges, calls, key, pos,
                   state_index>>

\* Lines 173-184: sym_exec(world_state=..., target_address=address.value).
DispatchDirect(G) ==
    /\ pc = "dispatch"
    /\ ~IsCreationRun(inp.contract)
    /\ world_state' = put_account(world_state,
                          DeployedAccount(address, inp.contract, inp.dynloader))
    /\ \E g \in G :
          laser' = SymExec(laser,
                           [mode |-> "direct",
                            target_address |-> address.value,
                            world_state |-> world_state'], g)
    /\ trace' = Append(trace, "sym_exec")
    /\ pc' = "return"
    /\ UNCHANGED <<inp, address, s_strategy, requires_statespace, attrs,
                   accounts, error, nodes, edges, calls, key, pos, state_index>>

\* Lines 186-187.
ReturnEarly ==
    /\ pc = "return"
    /\ ~requires_statespace
    /\ pc' = "done"
    /\ UNCHANGED <<inp, address, s_strategy, requires_statespace, attrs,
                   accounts, laser, world_state, trace, error, nodes, edges,
                   calls, key, pos, state_index>>

\* Lines 189-194.
Capture ==
    /\ pc = "return"
    /\ requires_statespace
    /\ nodes' = laser.nodes
    /\ edges' = laser.edges
    /\ calls' = <<>>
    /\ attrs' = attrs \cup {"nodes", "edges", "calls"}
    /\ key' = 0
    /\ pc' = "nodes"
    /\ UNCHANGED <<inp, address, s_strategy, requires_statespace, accounts,
                   laser, world_state, trace, error, pos, state_index>>

-----------------------------------------------------------------------------
(* Parsing the calls, lines 196-272 *)

\* The node self.nodes[key] of the outer loop.
CurrentNode == nodes[key]

\* The state of the inner loop.
CurrentState == CurrentNode.states[pos + 1]

\* A reference to the state of the inner loop: its node and its place there.
CurrentStateRef == [node |-> CurrentNode.uid, place |-> pos + 1]

InStates == pc = "states" /\ pos < Len(CurrentNode.states)

\* Lines 196-198: the next key; state_index = 0.
EnterNode ==
    /\ pc = "nodes"
    /\ key < Len(nodes)
    /\ key' = key + 1
    /\ state_index' = 0
    /\ pos' = 0
    /\ pc' = "states"
    /\ UNCHANGED <<inp, address, s_strategy, requires_statespace, attrs,
                   accounts, laser, world_state, trace, error, nodes, edges,
                   calls>>

\* Line 196: no key is left; __init__ returns.
FinishNodes ==
    /\ pc = "nodes"
    /\ key = Len(nodes)
    /\ pc' = "done"
    /\ UNCHANGED <<inp, address, s_strategy, requires_statespace, attrs,
                   accounts, laser, world_state, trace, error, nodes, edges,
                   calls, key, pos, state_index>>

\* Line 200: no state is left in the node.
LeaveNode ==
    /\ pc = "states"
    /\ pos = Len(CurrentNode.states)
    /\ pc' = "nodes"
    /\ UNCHANGED <<inp, address, s_strategy, requires_statespace, attrs,
                   accounts, laser, world_state, trace, error, nodes, edges,
                   calls, key, pos, state_index>>

\* Lines 202-206 and 272: not a call instruction.
SkipInstruction ==
    /\ InStates
    /\ ~IsCallFamily(CurrentState.opcode)
    /\ pos' = pos + 1
    /\ state_index' = state_index + 1
    /\ UNCHANGED <<pc, inp, address, s_strategy, requires_statespace, attrs,
                   accounts, laser, world_state, trace, error, nodes, edges,
                   calls, key>>

\* Lines 210-226: a CALL or CALLCODE to a prebuilt; `continue` goes to the
\* next state past line 272.
SkipPrebuilt ==
    /\ InStates
    /\ IsCallFamily(CurrentState.opcode)
    /\ IsValueCall(CurrentState.opcode)
    /\ IsPrebuilt(get_variable(Peek(CurrentState.stack, 2)))
    /\ pos' = pos + 1
    /\ UNCHANGED <<pc, inp, address, s_strategy, requires_statespace, attrs,
                   accounts, laser, world_state, trace, error, nodes, edges,
                   calls, key, state_index>>

\* Lines 228-245 and 272.
EmitCallWithData ==
    /\ InStates
    /\ IsCallFamily(CurrentState.opcode)
    /\ IsValueCall(CurrentState.opcode)
    /\ ~IsPrebuilt(get_variable(Peek(CurrentState.stack, 2)))
    /\ HasConcreteInput(get_variable(Peek(CurrentState.stack, 4)),
                        get_variable(Peek(CurrentState.stack, 5)))
    /\ calls' = AppendCall(calls,
                    CallWithData(CurrentNode.uid, CurrentStateRef, state_index,
                                 CurrentState.opcode, CurrentState.stack,
                                 CurrentState.memory))
    /\ pos' = pos + 1
    /\ state_index' = state_index + 1
    /\ UNCHANGED <<pc, inp, address, s_strategy, requires_statespace, attrs,
                   accounts, laser, world_state, trace, error, nodes, edges, key>>

\* Lines 246-257 and 272.
EmitCallWithoutData ==
    /\ InStates
    /\ IsCallFamily(CurrentState.opcode)
    /\ IsValueCall(CurrentState.opcode)
    /\ ~IsPrebuilt(get_variable(Peek(CurrentState.stack, 2)))
    /\ ~HasConcreteInput(get_variable(Peek(CurrentState.stack, 4)),
                         get_variable(Peek(CurrentState.stack, 5)))
    /\ calls' = AppendCall(calls,
                    CallWithoutData(CurrentNode.uid, CurrentStateRef, state_index,
                                    CurrentState.opcode, CurrentState.stack))
    /\ pos' = pos + 1
    /\ state_index' = state_index + 1
    /\ UNCHANGED <<pc, inp, address, s_strategy, requires_statespace, attrs,
                   accounts, laser, world_state, trace, error, nodes, edges, key>>

\* Lines 258-272: DELEGATECALL or STATICCALL.
EmitPlainCall ==
    /\ InStates
    /\ IsCallFamily(CurrentState.opcode)
    /\ ~IsValueCall(CurrentState.opcode)
    /\ calls' = AppendCall(calls,
                    CallToGas(CurrentNode.uid, CurrentStateRef, state_index,
                              CurrentState.opcode, CurrentState.stack))
    /\ pos' = pos + 1
    /\ state_index' = state_index + 1
    /\ UNCHANGED <<pc, inp, address, s_strategy, requires_statespace, attrs,
                   accounts, laser, world_state, trace, error, nodes, edges, key>>

ParseCalls ==
    \/ EnterNode
    \/ FinishNodes
    \/ LeaveNode
    \/ SkipInstruction
    \/ SkipPrebuilt
    \/ EmitCallWithData
    \/ EmitCallWithoutData
    \/ EmitPlainCall

Assemble ==
    \/ Normalize
    \/ StrategySelected
    \/ Bootstrap
    \/ BuildEngine
    \/ ExtendStrategy
    \/ LoadPlugins
    \/ BuildWorldState
    \/ RegisterHooks

-----------------------------------------------------------------------------
(* Spec: every combination of arguments, the engine handing back no node or *)
(* the sample statespace.                                                   *)

Next ==
    \/ Assemble
    \/ StrategyRejected
    \/ DispatchCreation({<<>>, SampleStatespace})
    \/ DispatchDirect({<<>>, SampleStatespace})
    \/ ReturnEarly
    \/ Capture
    \/ ParseCalls

Spec == Init /\ [][Next]_vars

(* SpecCalls: one direct-entry call of __init__ with the statespace         *)
(* retained, the engine handing back any statespace of at most MaxStates    *)
(* states.                                                                  *)

CallsInputs ==
    {i \in Inputs :
        /\ i.contract.kind = "EVMContract" /\ i.contract.creation_code = ""
        /\ i.address.type = "int" /\ i.strategy = "dfs"
        /\ i.dynloader = "None" /\ i.loop_bound.none
        /\ i.compulsory_statespace /\ i.post_modules = 0
        /\ i.disable_dependency_pruning /\ ~i.run_analysis_modules}

InitCalls == InitWith(CallsInputs)

NextCalls ==
    \/ Assemble
    \/ \E shape \in Shapes : DispatchDirect(Statespaces(shape))
    \/ Capture
    \/ ParseCalls

SpecCalls == InitCalls /\ [][NextCalls]_vars

-----------------------------------------------------------------------------
(* Properties of the parsed calls (SpecCalls) *)

\* The places <<n, p>> of the states the loops have gone through.
Visited ==
    {np \in UNION {{<<n, p>> : p \in 1..Len(nodes[n].states)} : n \in 1..Len(nodes)} :
        np[1] < key \/ (np[1] = key /\ np[2] <= pos)}

StateAt(np) == nodes[np[1]].states[np[2]]

\* The reference a record holds to the state at place np.
RefTo(np) == [node |-> nodes[np[1]].uid, place |-> np[2]]

\* The place of the state a record refers to.
PlaceOf(call) ==
    <<CHOOSE n \in 1..Len(nodes) : nodes[n].uid = call.state.node, call.state.place>>

\* The records made for the state at place np.
RecordsFor(np) == {i \in 1..Len(calls) : calls[i].state = RefTo(np)}

\* The k-th stack entry from the top of a state, as the engine left it.
Operand(st, k) == st.stack[Len(st.stack) + 1 - k]

\* A stack entry as a record is to carry it.
Classified(e) ==
    IF e.symbolic THEN [type |-> "SYMBOLIC", sym |-> e.expr]
    ELSE [type |-> "CONCRETE", val |-> e.value]

TargetsPrecompile(st) ==
    /\ ~Operand(st, 2).symbolic
    /\ Operand(st, 2).value \in 1..PRECOMPILE_COUNT

ParseDone == pc = "done" /\ "calls" \in attrs

\* C1: every Call Record's state index is the zero-based position of its
\* state in its node's states, also after a discarded call to a prebuilt.
StateIndexIsOrdinal ==
    \A i \in 1..Len(calls) : calls[i].state_index = calls[i].state.place - 1

\* C2: a CALL or CALLCODE whose target is concrete and in
\* 1..PRECOMPILE_COUNT gets no Call Record, whatever its other operands.
NoRecordForPrecompile ==
    \A np \in Visited :
        (StateAt(np).opcode \in {"CALL", "CALLCODE"} /\ TargetsPrecompile(StateAt(np)))
            => RecordsFor(np) = {}

PrecompileCallParsed ==
    /\ ParseDone
    /\ \E np \in Visited :
          /\ StateAt(np).opcode = "CALLCODE"
          /\ TargetsPrecompile(StateAt(np))
          /\ Operand(StateAt(np), 2).value = PRECOMPILE_COUNT
          /\ Operand(StateAt(np), 4).symbolic
    /\ Len(calls) = 1

\* C3: a CALL/CALLCODE record carries as data exactly the memory bytes
\* [o, o+s) of its state when the input offset o and size s are both
\* concrete; when either is symbolic it has no data and still carries
\* opcode, target, gas and value.
DataIsInputSlice ==
    \A i \in 1..Len(calls) :
        LET c == calls[i]
            st == StateAt(PlaceOf(c))
            o == Operand(st, 4)
            z == Operand(st, 5)
        IN  c.type \in {"CALL", "CALLCODE"} =>
              /\ c.type = st.opcode
              /\ c.to = Classified(Operand(st, 2))
              /\ c.gas = Classified(Operand(st, 1))
              /\ c.value = Classified(Operand(st, 3))
              /\ IF ~o.symbolic /\ ~z.symbolic
                 THEN /\ "data" \in DOMAIN c
                      /\ Len(c.data) = z.value
                      /\ \A j \in 1..z.value : c.data[j] = st.memory[o.value + j]
                 ELSE "data" \notin DOMAIN c

DataAndNoDataParsed ==
    /\ ParseDone
    /\ Len(calls) = 2
    /\ "data" \in DOMAIN calls[1] /\ calls[1].data = <<187, 204>>
    /\ "data" \notin DOMAIN calls[2]

\* C4: every DELEGATECALL or STATICCALL gets exactly one Call Record, with
\* opcode, target (stack[-2]) and gas (stack[-1]) and neither value nor
\* data, also when its target is concrete and in 1..PRECOMPILE_COUNT.
PlainCallsAlwaysRecorded ==
    \A np \in Visited :
        StateAt(np).opcode \in {"DELEGATECALL", "STATICCALL"} =>
            /\ Cardinality(RecordsFor(np)) = 1
            /\ \A i \in RecordsFor(np) :
                  /\ DOMAIN calls[i] =
                        {"node", "state", "state_index", "type", "to", "gas"}
                  /\ calls[i].type = StateAt(np).opcode
                  /\ calls[i].to = Classified(Operand(StateAt(np), 2))
                  /\ calls[i].gas = Classified(Operand(StateAt(np), 1))
                  /\ calls[i].node = nodes[np[1]].uid

PlainCallToPrecompileParsed ==
    /\ ParseDone
    /\ \E np \in Visited :
          /\ StateAt(np).opcode = "STATICCALL"
          /\ TargetsPrecompile(StateAt(np))
          /\ RecordsFor(np) # {}

\* Place a comes before place b: an earlier node, or the same node and an
\* earlier state.
Precedes(a, b) == a[1] < b[1] \/ (a[1] = b[1] /\ a[2] < b[2])

\* C5: the records are in node-then-state order: a record whose state
\* comes before another record's state comes before it in self.calls.
RecordsInNodeStateOrder ==
    \A i, j \in 1..Len(calls) :
        Precedes(PlaceOf(calls[i]), PlaceOf(calls[j])) => i < j

RecordsOfTwoNodesParsed ==
    /\ ParseDone
    /\ Len(calls) = 2
    /\ PlaceOf(calls[1])[1] # PlaceOf(calls[2])[1]

\* C10: the pass goes through any statespace without failing and makes at
\* most one record per state: as many records as call-family states less
\* the CALL/CALLCODE states to a concrete target in 1..PRECOMPILE_COUNT;
\* every record's opcode is of the call family, and a CALL/CALLCODE to a
\* symbolic target, to 0 or to a target above PRECOMPILE_COUNT has a record.
RecordCountIsCallsLessPrecompiles ==
    /\ pc \in {"nodes", "states"} => ENABLED ParseCalls
    /\ \A np \in Visited :
          /\ Cardinality(RecordsFor(np)) <= 1
          /\ (/\ StateAt(np).opcode \in {"CALL", "CALLCODE"}
              /\ ~TargetsPrecompile(StateAt(np))) => RecordsFor(np) # {}
    /\ \A i \in 1..Len(calls) :
          /\ calls[i].type \in {"CALL", "CALLCODE", "DELEGATECALL", "STATICCALL"}
          /\ PlaceOf(calls[i]) \in Visited
    /\ ParseDone =>
          Len(calls) =
              Cardinality({np \in Visited : StateAt(np).opcode \in
                              {"CALL", "CALLCODE", "DELEGATECALL", "STATICCALL"}})
              - Cardinality({np \in Visited :
                                /\ StateAt(np).opcode \in {"CALL", "CALLCODE"}
                                /\ TargetsPrecompile(StateAt(np))})

SymbolicAndZeroTargetsParsed ==
    /\ ParseDone
    /\ Len(calls) = 2
    /\ calls[1].type = "CALL" /\ calls[1].to = [type |-> "SYMBOLIC", sym |-> "to"]
    /\ calls[2].type = "CALLCODE" /\ calls[2].to = [type |-> "CONCRETE", val |-> 0]

-----------------------------------------------------------------------------
(* Properties of the assembly and the run (Spec) *)

Supported == {"dfs", "bfs", "naive-random", "weighted-random"}

PolicyTypes == {"DepthFirstSearchStrategy", "BreadthFirstSearchStrategy",
                "ReturnRandomNaivelyStrategy", "ReturnWeightedRandomStrategy"}

GraphFields == {"nodes", "edges", "calls"}

RetentionWanted == inp.compulsory_statespace \/ inp.post_modules >= 1

\* C6: the engine is told to retain the statespace exactly when the caller
\* forces it or a POST module exists for the selected modules; without
\* retention __init__ ends with nodes, edges and calls unset and no call
\* parsed, with retention it ends with all three set.
RetentionIffForcedOrPostModule ==
    /\ "laser" \in attrs => (laser.requires_statespace <=> RetentionWanted)
    /\ ~RetentionWanted =>
          /\ attrs \cap GraphFields = {}
          /\ pc \notin {"nodes", "states"}
          /\ calls = <<>> /\ key = 0 /\ pos = 0
    /\ pc \in {"nodes", "states", "done"} /\ RetentionWanted =>
          GraphFields \subseteq attrs

RetainedForPostModuleOnly ==
    /\ pc = "done"
    /\ ~inp.compulsory_statespace /\ inp.post_modules = 1
    /\ GraphFields \subseteq attrs
    /\ Len(calls) > 0

\* C7: each of dfs, bfs, naive-random and weighted-random selects a policy
\* type of its own; any other name raises the error before an account, a
\* world state, the engine, a plugin, a hook or a run is made.
StrategySelectedOrRaisedFirst ==
    /\ pc \notin {"normalize", "strategy"} /\ inp.strategy \in Supported =>
          /\ pc # "raised" /\ error = ""
          /\ s_strategy \in PolicyTypes
          /\ \A other \in Supported \ {inp.strategy} :
                SelectStrategy(other) \in PolicyTypes \ {s_strategy}
    /\ pc \notin {"normalize", "strategy"} /\ inp.strategy \notin Supported =>
          /\ pc = "raised" /\ error = "ValueError"
          /\ s_strategy = ""
          /\ attrs = {} /\ accounts = <<>> /\ laser = NoLaser
          /\ DOMAIN world_state = {} /\ trace = <<>>

RaisedOnUnknownStrategy ==
    pc = "raised" /\ inp.strategy = "random" /\ error = "ValueError"

\* Every bootstrapped account is the account the run's world state holds at
\* its address.
HandedToRun(run) ==
    \A i \in 1..Len(accounts) :
        /\ accounts[i].account.address \in DOMAIN run.world_state
        /\ run.world_state[accounts[i].account.address] = accounts[i].account

BootstrappedAsActors ==
    "accounts" \in attrs =>
        /\ inp.contract.creation_code = "" =>
              /\ Len(accounts) = 1
              /\ accounts[1].account.address = ACTORS.attacker
        /\ inp.contract.creation_code # "" =>
              /\ Len(accounts) = 2
              /\ accounts[1].account.address = ACTORS.creator
              /\ accounts[2].account.address = ACTORS.attacker
        /\ \A i \in 1..Len(accounts) :
              /\ accounts[i].account.code = ""
              /\ int16(accounts[i].k) = accounts[i].account.address

\* C8 as stated: the accounts are the actors the creation code calls for,
\* with empty bytecode, and each of them is in the world state of the run.
BootstrappedAccountsInRunWorldState ==
    /\ BootstrappedAsActors
    /\ \A r \in 1..Len(laser.runs) : HandedToRun(laser.runs[r])

\* C8 as amended: as stated, except that a direct-entry run at the address
\* of a bootstrapped account finds the deployed account at that address.
BootstrappedAccountsInRunWorldStateUnlessTarget ==
    /\ BootstrappedAsActors
    /\ \A r \in 1..Len(laser.runs) :
          LET run == laser.runs[r] IN
          \A i \in 1..Len(accounts) :
              LET a == accounts[i].account IN
              /\ a.address \in DOMAIN run.world_state
              /\ IF run.mode = "direct" /\ run.target_address = a.address
                 THEN run.world_state[a.address].code = inp.contract.disassembly
                 ELSE run.world_state[a.address] = a

TwoActorsHandedToRun ==
    /\ pc = "done"
    /\ Len(accounts) = 2
    /\ Len(laser.runs) = 1
    /\ HandedToRun(laser.runs[1])
    /\ Cardinality(DOMAIN laser.runs[1].world_state) = 2

\* The number a given address stands for.
GivenAddress ==
    IF inp.address.type = "str"
    THEN 16 * inp.address.digits[1] + inp.address.digits[2]
    ELSE IF inp.address.type = "int" THEN inp.address.n
    ELSE inp.address.bv.value

\* C9: __init__ runs the engine exactly once, as the last call it makes on
\* it, after the loop bound, the plugins and the hooks are in place: a
\* creation run for a SolidityContract or an EVMContract with creation
\* code, else a direct run at the given address with the deployed bytecode
\* in the world state at that address.
RunsOnceAfterSetup ==
    /\ pc \in {"normalize", "strategy", "bootstrap", "engine", "extend",
               "plugins", "world", "hooks", "dispatch", "raised"} =>
          /\ laser.runs = <<>>
          /\ \A e \in 1..Len(trace) : trace[e] # "sym_exec"
    /\ pc \in {"return", "nodes", "states", "done"} =>
          /\ Len(laser.runs) = 1
          /\ trace[Len(trace)] = "sym_exec"
          /\ \A e \in 1..(Len(trace) - 1) : trace[e] # "sym_exec"
          /\ Len(laser.extensions) = (IF inp.loop_bound.none THEN 0 ELSE 1)
          /\ Len(laser.plugins) = (IF inp.disable_dependency_pruning THEN 2 ELSE 3)
          /\ laser.plugins[1] = "mutation_pruner"
          /\ laser.plugins[2] = "instruction_coverage"
          /\ Len(laser.hooks) = (IF inp.run_analysis_modules THEN 2 ELSE 0)
          /\ Len(trace) = 2 + Len(laser.extensions) + Len(laser.plugins)
                            + Len(laser.hooks)
          /\ LET run == laser.runs[1] IN
             IF \/ inp.contract.kind = "SolidityContract"
                \/ inp.contract.kind = "EVMContract" /\ inp.contract.creation_code # ""
             THEN /\ run.mode = "creation"
                  /\ run.creation_code = inp.contract.creation_code
             ELSE /\ run.mode = "direct"
                  /\ run.target_address = GivenAddress
                  /\ GivenAddress \in DOMAIN run.world_state
                  /\ run.world_state[GivenAddress].code = inp.contract.disassembly

DirectRunAfterFullSetup ==
    /\ pc = "done"
    /\ laser.runs[1].mode = "direct"
    /\ inp.contract.kind = "EVMContract"
    /\ trace = <<"LaserEVM", "extend_strategy", "load", "load", "load",
                 "register_hooks", "register_hooks", "sym_exec">>

====
